---------------------------- MODULE Spec2Model ----------------------------
(***************************************************************************)
(* The two-phase follow-graph crawler (main.py), its SQLite store          *)
(* (storage.py), the remote directory client (bluesky_api.py) and the      *)
(* Phase-2 re-run script (phase2.py).                                      *)
(*                                                                         *)
(* The store is two tables: users (one row per did) and follows (one row   *)
(* per directed pair).  A phase invocation is a loop; one iteration of the *)
(* loop is one action.  The remote directory is a fixed directed graph;    *)
(* a list fetch returns the whole list, or, when a page request fails, the *)
(* pages read so far (a prefix of the list in the server's order).         *)
(*                                                                         *)
(* Left out: the handle snapshots of a follows row (a function of the two  *)
(* dids here), added_at, the printing and the sleeps.  Counts are          *)
(* integers: a profile whose counts are None is not modelled.              *)
(***************************************************************************)
EXTENDS Integers, Sequences, FiniteSets, TLC

VARIABLES
    users,           \* storage.py users table: did -> row
    follows,         \* storage.py follows table: set of <<follower, following, is_mutual>>
    remote,          \* the remote follow graph: set of <<follower, following>>
    pc,              \* "idle"; "p1", "p2": in a phase's loop; "p1end", "p2end": after it
    to_process,      \* the running phase's queue
    processed,       \* the running phase's processed set
    max_users,       \* the running phase's max_users (NoLimit: None)
    min_connections, \* Phase 2's min_connections
    crawled_count,   \* Phase 2's crawled_count
    run,             \* history of the running phase invocation
    faults,          \* remote requests that have failed so far
    storeHist,       \* history of the add_follow calls made on the store directly
    list_fetches     \* did -> fetches of its follow and follower lists since the
                     \* reset last cleared its crawled flag

vars == <<users, follows, remote, pc, to_process, processed, max_users,
          min_connections, crawled_count, run, faults, storeHist,
          list_fetches>>

(***************************************************************************)
(* Values                                                                  *)
(***************************************************************************)
None == "None"

Accounts == {"S", "A", "B", "C"}

HandleOf(did) == did

Range(s) == {s[i] : i \in DOMAIN s}

\* All orderings of a finite set, as sequences without repetition.
Perms(X) ==
    {s \in [1..Cardinality(X) -> X] : \A i, j \in 1..Cardinality(X) : s[i] = s[j] => i = j}

(***************************************************************************)
(* storage.py                                                              *)
(***************************************************************************)
Row(handle, display_name, followers_count, follows_count, description, crawled, core) ==
    [handle |-> handle, display_name |-> display_name,
     followers_count |-> followers_count, follows_count |-> follows_count,
     description |-> description, crawled |-> crawled, is_mutual_core |-> core]

\* A mutant of add_user: the incoming values always replace the stored ones.
add_user_overwrite(U, did, handle, display_name, followers_count, follows_count, description) ==
    [d \in DOMAIN U \cup {did} |->
        IF d = did
        THEN Row(handle, display_name, followers_count, follows_count, description,
                 IF did \in DOMAIN U THEN U[did].crawled ELSE 0,
                 IF did \in DOMAIN U THEN U[did].is_mutual_core ELSE 0)
        ELSE U[d]]

\* A mutant of add_user: INSERT OR REPLACE with the default flags.
add_user_resetflags(U, did, handle, display_name, followers_count, follows_count, description) ==
    [d \in DOMAIN U \cup {did} |->
        IF d = did
        THEN Row(handle, display_name, followers_count, follows_count, description, 0, 0)
        ELSE U[d]]

add_user(U, did, handle, display_name, followers_count, follows_count, description) ==
    LET existing == did \in DOMAIN U
        crawled  == IF existing THEN U[did].crawled ELSE 0
        core     == IF existing THEN U[did].is_mutual_core ELSE 0
        fc   == IF existing /\ followers_count = 0 /\ U[did].followers_count > 0
                THEN U[did].followers_count ELSE followers_count
        foc  == IF existing /\ follows_count = 0 /\ U[did].follows_count > 0
                THEN U[did].follows_count ELSE follows_count
        desc == IF existing /\ description = None /\ U[did].description # None
                THEN U[did].description ELSE description
        dn   == IF existing /\ display_name = None /\ U[did].display_name # None
                THEN U[did].display_name ELSE display_name
    IN  [d \in DOMAIN U \cup {did} |->
            IF d = did THEN Row(handle, dn, fc, foc, desc, crawled, core) ELSE U[d]]

\* A mutant of add_follow: INSERT OR REPLACE, the last write wins.
add_follow_replace(F, follower_did, following_did, is_mutual) ==
    {e \in F : ~(e[1] = follower_did /\ e[2] = following_did)}
        \cup {<<follower_did, following_did, is_mutual>>}

\* A mutant of add_follow: a first record of a pair is stored as not mutual.
add_follow_nomutual(F, follower_did, following_did, is_mutual) ==
    IF \E e \in F : e[1] = follower_did /\ e[2] = following_did
    THEN F
    ELSE F \cup {<<follower_did, following_did, FALSE>>}

add_follow(F, follower_did, following_did, is_mutual) ==
    IF \E e \in F : e[1] = follower_did /\ e[2] = following_did
    THEN F
    ELSE F \cup {<<follower_did, following_did, is_mutual>>}

\* A mutant of mark_as_crawled: the core flag is written too.
mark_as_crawled_and_core(U, did) ==
    IF did \in DOMAIN U THEN [U EXCEPT ![did].crawled = 1, ![did].is_mutual_core = 1] ELSE U

mark_as_crawled(U, did) ==
    IF did \in DOMAIN U THEN [U EXCEPT ![did].crawled = 1] ELSE U

\* A mutant of is_crawled: the flag is not read.
is_crawled_never(U, did) == FALSE

\* A mutant of mark_as_mutual_core: the flag is not written.
mark_as_mutual_core_skip(U, did) == U

mark_as_mutual_core(U, did) ==
    IF did \in DOMAIN U THEN [U EXCEPT ![did].is_mutual_core = 1] ELSE U

is_crawled(U, did) == did \in DOMAIN U /\ U[did].crawled = 1

user_exists(U, did) == did \in DOMAIN U

get_uncrawled_users(U) == {d \in DOMAIN U : U[d].crawled = 0}

get_connection_count(F, did) ==
    Cardinality({e[1] : e \in {x \in F : x[2] = did}} \cup {e[2] : e \in {x \in F : x[1] = did}})

\* A mutant of the core count: every linked account counts, core or not.
count_all_connections(U, F, did) == get_connection_count(F, did)

\* A mutant of the core count: UNION ALL, and no DISTINCT.
core_count_union_all(U, F, did) ==
    LET followers == {f[1] : f \in {e \in F :
                        /\ e[1] \in DOMAIN U
                        /\ e[2] = did /\ U[e[1]].is_mutual_core = 1}}
        following == {f[2] : f \in {e \in F :
                        /\ e[2] \in DOMAIN U
                        /\ e[1] = did /\ U[e[2]].is_mutual_core = 1}}
    IN  Cardinality(followers) + Cardinality(following)

\* COUNT(DISTINCT connected_did) of the UNION of the two SELECTs: the
\* follower_did of the rows f JOIN users u ON f.follower_did = u.did WHERE
\* f.following_did = did AND u.is_mutual_core = 1, and the same for following_did.
get_mutual_core_connection_count(U, F, did) ==
    LET followers == {f[1] : f \in {e \in F :
                        /\ e[1] \in DOMAIN U
                        /\ e[2] = did /\ U[e[1]].is_mutual_core = 1}}
        following == {f[2] : f \in {e \in F :
                        /\ e[2] \in DOMAIN U
                        /\ e[1] = did /\ U[e[2]].is_mutual_core = 1}}
    IN  Cardinality(followers \cup following)

\* phase2.py reset_phase2_users: UPDATE users SET crawled = 0 WHERE is_mutual_core = 0
\* A mutant of the reset: the WHERE clause is inverted.
reset_core_users(U) ==
    [d \in DOMAIN U |-> IF U[d].is_mutual_core = 1 THEN [U[d] EXCEPT !.crawled = 0] ELSE U[d]]

\* A mutant of the reset: the WHERE clause is left out.
reset_all_users(U) == [d \in DOMAIN U |-> [U[d] EXCEPT !.crawled = 0]]

reset_phase2_users(U) ==
    [d \in DOMAIN U |-> IF U[d].is_mutual_core = 0 THEN [U[d] EXCEPT !.crawled = 0] ELSE U[d]]

(***************************************************************************)
(* bluesky_api.py                                                          *)
(***************************************************************************)
FollowsOf(G, actor) == {e[2] : e \in {x \in G : x[1] = actor}}

FollowersOf(G, actor) == {e[1] : e \in {x \in G : x[2] = actor}}

\* What the remote directory says of an account's profile.
DisplayNameOf(did) == IF did = "C" THEN None ELSE did

DescriptionOf(did) == IF did = "B" THEN None ELSE IF did = "A" THEN "" ELSE "bio"

\* get_profile: the profile, or no profile when the request fails.
NoProfile == [ok |-> FALSE]

get_profile(G, actor) ==
    {NoProfile,
     [ok |-> TRUE, did |-> actor, handle |-> HandleOf(actor), display_name |-> DisplayNameOf(actor),
      followers_count |-> Cardinality(FollowersOf(G, actor)),
      follows_count |-> Cardinality(FollowsOf(G, actor)),
      description |-> DescriptionOf(actor)]}

\* The order in which the directory lists the accounts of X, page after page.
ServerOrder(X) == CHOOSE l \in Perms(X) : TRUE

\* A paginated fetch of the set X: every page read (ok), or the pages read
\* before the request that failed (a page may hold as little as one account).
FetchList(X) ==
    LET l == ServerOrder(X)
    IN  {[list |-> l, ok |-> TRUE]}
            \cup {[list |-> SubSeq(l, 1, k), ok |-> FALSE] : k \in 0..Len(l)}

get_all_follows(G, actor) == FetchList(FollowsOf(G, actor))

get_all_followers(G, actor) == FetchList(FollowersOf(G, actor))

\* A mutant of find_mutuals: every connection is taken for a mutual.
find_mutuals_union(follows_list, followers_list) ==
    [follows |-> follows_list, followers |-> followers_list,
     mutuals |-> Range(follows_list) \cup Range(followers_list)]

find_mutuals(follows_list, followers_list) ==
    [follows |-> follows_list, followers |-> followers_list,
     mutuals |-> Range(follows_list) \cap Range(followers_list)]

(***************************************************************************)
(* main.py: what the two phases share                                      *)
(***************************************************************************)
\* max_users=None, the default: no limit.
NoLimit == -1

\* "if max_users and ...": None and 0 are both falsy.
\* A mutant of the truth test: 0 is taken for a limit.
Truthy_is_not_None(mu) == mu # NoLimit

Truthy(mu) == mu # NoLimit /\ mu # 0

\* A mutant of the limit test: one iteration too many.
limit_reached_late(mu, n) == Truthy(mu) /\ n > mu

limit_reached(mu, n) == Truthy(mu) /\ n >= mu

\* A mutant of the threshold test: one connection short still qualifies.
qualifies_one_short(connection_count, T) == connection_count >= T - 1

qualifies(connection_count, T) == connection_count >= T

Store(U, F) == [u |-> U, f |-> F]

upsert_profile(U, profile) ==
    add_user(U, profile.did, profile.handle, profile.display_name,
             profile.followers_count, profile.follows_count, profile.description)

\* A mutant of the stub upsert: no row is written.
upsert_stub_none(U, did) == U

upsert_stub(U, did) == add_user(U, did, HandleOf(did), DisplayNameOf(did), 0, 0, None)

(***************************************************************************)
(* main.py phase1_mutuals_graph                                            *)
(*                                                                         *)
(* In the loops below the store after one iteration is written             *)
(* CHOOSE r \in {... s ... : s \in {st}} : TRUE, which is the value of the  *)
(* expression with st for s: st is evaluated once per iteration.           *)
(***************************************************************************)
\* Lines 81-95: the loop over result['follows'], from its i-th element on.
RECURSIVE p1_follows(_, _, _, _, _)
p1_follows(st, cur, list, mutuals, i) ==
    IF i > Len(list) THEN st
    ELSE p1_follows(CHOOSE r \in {Store(upsert_stub(s.u, list[i]),
                                        add_follow(s.f, cur, list[i], list[i] \in mutuals)) :
                                  s \in {st}} : TRUE,
                    cur, list, mutuals, i + 1)

\* A mutant of the followers loop: a follower that is also followed is recorded again.
RECURSIVE p1_followers_all(_, _, _, _, _)
p1_followers_all(st, cur, list, follows_dids, i) ==
    IF i > Len(list) THEN st
    ELSE p1_followers_all(CHOOSE r \in {Store(upsert_stub(s.u, list[i]),
                                              add_follow(s.f, list[i], cur, FALSE)) :
                                        s \in {st}} : TRUE,
                          cur, list, follows_dids, i + 1)

\* A mutant of the followers loop: no follower is recorded.
p1_followers_none(st, cur, list, follows_dids, i) == st

\* Lines 98-114: the loop over result['followers'], from its i-th element on.
RECURSIVE p1_followers(_, _, _, _, _)
p1_followers(st, cur, list, follows_dids, i) ==
    IF i > Len(list) THEN st
    ELSE p1_followers(CHOOSE r \in {Store(upsert_stub(s.u, list[i]),
                                          IF list[i] \notin follows_dids
                                          THEN add_follow(s.f, list[i], cur, FALSE)
                                          ELSE s.f) :
                                    s \in {st}} : TRUE,
                      cur, list, follows_dids, i + 1)

\* A mutant of the enqueue test: an account the store knows is taken for crawled.
p1_enqueue_unknown_only(queue, order, done, U) ==
    queue \o SelectSeq(order, LAMBDA m : m \notin done /\ ~user_exists(U, m))

\* A mutant of the enqueue: the mutuals are put at the front of the queue.
p1_enqueue_front(queue, order, done, U) ==
    SelectSeq(order, LAMBDA m : m \notin done /\ ~is_crawled(U, m)) \o queue

\* Lines 119-121: the loop over result['mutuals'] (a set: order is the iteration's).
p1_enqueue(queue, order, done, U) ==
    queue \o SelectSeq(order, LAMBDA m : m \notin done /\ ~is_crawled(U, m))

\* Lines 124-125.
p1_mark(U, cur) == mark_as_mutual_core(mark_as_crawled(U, cur), cur)

\* Lines 58-114 on the store.
p1_store(U, F, profile, result) ==
    LET cur == profile.did
        s0  == Store(upsert_profile(U, profile), F)
        s1  == p1_follows(s0, cur, result.follows, result.mutuals, 1)
    IN  p1_followers(s1, cur, result.followers, Range(result.follows), 1)

(***************************************************************************)
(* main.py phase2_expand_graph                                             *)
(***************************************************************************)
\* A mutant of the initial scan: every uncrawled account is queued.
p2_initial_queue_all(U, F, order, T) == order

\* Lines 165-175: the scan of get_uncrawled_users, in the order the query gives.
p2_initial_queue(U, F, order, T) ==
    SelectSeq(order, LAMBDA d : qualifies(get_mutual_core_connection_count(U, F, d), T))

\* A mutant of lines 222-234: an edge whose reverse is stored is recorded as mutual.
RECURSIVE p2_follows_detect(_, _, _, _)
p2_follows_detect(st, cur, list, i) ==
    IF i > Len(list) THEN st
    ELSE p2_follows_detect(
            CHOOSE r \in {Store(IF user_exists(s.u, list[i]) THEN s.u
                                ELSE upsert_stub(s.u, list[i]),
                                add_follow(s.f, cur, list[i],
                                           \E e \in s.f : e[1] = list[i] /\ e[2] = cur)) :
                          s \in {st}} : TRUE,
            cur, list, i + 1)

\* Lines 222-234: the loop over follows, from its i-th element on.
RECURSIVE p2_follows(_, _, _, _)
p2_follows(st, cur, list, i) ==
    IF i > Len(list) THEN st
    ELSE p2_follows(CHOOSE r \in {Store(IF user_exists(s.u, list[i]) THEN s.u
                                        ELSE upsert_stub(s.u, list[i]),
                                        add_follow(s.f, cur, list[i], FALSE)) :
                                  s \in {st}} : TRUE,
                    cur, list, i + 1)

\* Lines 237-249: the loop over followers, from its i-th element on.
RECURSIVE p2_followers(_, _, _, _)
p2_followers(st, cur, list, i) ==
    IF i > Len(list) THEN st
    ELSE p2_followers(CHOOSE r \in {Store(IF user_exists(s.u, list[i]) THEN s.u
                                          ELSE upsert_stub(s.u, list[i]),
                                          add_follow(s.f, list[i], cur, FALSE)) :
                                    s \in {st}} : TRUE,
                      cur, list, i + 1)

\* temp_connections: a dict, its keys in insertion order.
temp_connections(follows_list, followers_list) ==
    follows_list \o SelectSeq(followers_list, LAMBDA d : d \notin Range(follows_list))

\* A mutant of the scan: the "already in queue" test is left out.
RECURSIVE p2_scan_noqueuetest(_, _, _, _, _, _, _)
p2_scan_noqueuetest(queue, conns, i, done, U, F, T) ==
    IF i > Len(conns) THEN queue
    ELSE p2_scan_noqueuetest(
            IF conns[i] \in done \/ is_crawled(U, conns[i]) THEN queue
            ELSE IF qualifies(get_mutual_core_connection_count(U, F, conns[i]), T)
                 THEN Append(queue, conns[i]) ELSE queue,
            conns, i + 1, done, U, F, T)

\* A mutant of the scan: the re-scan of lines 260-282 is left out.
p2_scan_norescan(queue, conns, i, done, U, F, T) == queue

\* Lines 260-282: the loop over temp_connections, from its i-th element on.
RECURSIVE p2_scan(_, _, _, _, _, _, _)
p2_scan(queue, conns, i, done, U, F, T) ==
    IF i > Len(conns) THEN queue
    ELSE p2_scan(
            IF conns[i] \in done THEN queue
            ELSE IF conns[i] \in Range(queue) THEN queue
            ELSE IF is_crawled(U, conns[i]) THEN queue
            ELSE IF qualifies(get_mutual_core_connection_count(U, F, conns[i]), T)
                 THEN Append(queue, conns[i]) ELSE queue,
            conns, i + 1, done, U, F, T)

\* Lines 205-249 on the store.
p2_store(U, F, profile, follows_list, followers_list) ==
    LET cur == profile.did
        s0  == Store(upsert_profile(U, profile), F)
        s1  == p2_follows(s0, cur, follows_list, 1)
    IN  p2_followers(s1, cur, followers_list, 1)

(***************************************************************************)
(* The program: runs of Phase 1, of Phase 2 and of the reset, one after    *)
(* another, on a store that starts empty.                                  *)
(***************************************************************************)
MaxRuns == 2
MaxBudget == 2
MaxThreshold == 3
MaxFaults == 1

Failed(r) == IF r.ok THEN 0 ELSE 1

\* The history of the list fetches (find_mutuals, get_all_follows and
\* get_all_followers called by a step): none yet, one more for did, and the
\* history of the accounts the reset makes crawlable again forgotten.
NoFetches == [d \in {} |-> 0]

CountFetch(f, did) ==
    [d \in DOMAIN f \cup {did} |->
        IF d = did THEN (IF did \in DOMAIN f THEN f[did] + 1 ELSE 1) ELSE f[d]]

ForgetFetches(f, U) ==
    [d \in {x \in DOMAIN f : ~(x \in DOMAIN U /\ U[x].is_mutual_core = 0)} |-> f[d]]

EmptyUsers == [d \in {} |-> 0]

Seeds == {"S", "A"}
Budgets == {NoLimit} \cup 0..MaxBudget
Thresholds == 0..MaxThreshold

\* The remote graphs checked.
\* S follows A and B and is followed by A and C.
GraphScenario == {<<"S", "A">>, <<"S", "B">>, <<"A", "S">>, <<"C", "S">>}

\* S, A and B are mutuals of each other; C is linked to the three of them.
GraphClique ==
    {<<"S", "A">>, <<"A", "S">>, <<"S", "B">>, <<"B", "S">>, <<"A", "B">>, <<"B", "A">>,
     <<"C", "S">>, <<"C", "A">>, <<"B", "C">>}

\* S follows itself.
GraphSelf == {<<"S", "S">>, <<"S", "A">>, <<"A", "S">>, <<"A", "B">>, <<"C", "A">>}

\* A chain of mutuals S - A - B - C.
GraphChain ==
    {<<"S", "A">>, <<"A", "S">>, <<"A", "B">>, <<"B", "A">>, <<"B", "C">>, <<"C", "B">>}

RemoteGraphs == {GraphScenario, GraphClique, GraphSelf, GraphChain}

\* No log of the invocation before.
NoLast == [phase |-> 0, T |-> 0, crawled |-> {}, clean |-> FALSE, edges |-> {}]

\* The history of one invocation.
NewRun(phase, n, U) ==
    [phase |-> phase,         \* 1 or 2 (0: none yet)
     n |-> n,                 \* invocations started so far
     pre |-> {d \in DOMAIN U : U[d].crawled = 1},  \* crawled when it began
     crawled |-> {},          \* marked crawled by it
     cut |-> FALSE,           \* it ended on its limit
     profFail |-> {},         \* its profile fetches that failed
     listFail |-> {},         \* its list fetches that failed
     mutuals |-> {},          \* the follow/follower intersections it computed
     enq |-> {},              \* what it appended to the queue after the queue was built
     enqAt |-> {},            \* Phase 2: <<did, core-connection count>> at each enqueue decision
     scan |-> {},             \* Phase 2: <<did, core-connection count>> of the initial scan
     initial |-> {},          \* Phase 2: the dids of the initial queue
     seed |-> None,           \* Phase 1: seed_account
     lost |-> FALSE,          \* a list fetch has failed, in it or in an earlier invocation
     last |-> NoLast]         \* the invocation before it, where a log of it is kept

NoRun == NewRun(0, 0, EmptyUsers)

Init ==
    /\ users = EmptyUsers
    /\ follows = {}
    /\ remote \in RemoteGraphs
    /\ pc = "idle"
    /\ to_process = <<>>
    /\ processed = {}
    /\ max_users = NoLimit
    /\ min_connections = 0
    /\ crawled_count = 0
    /\ run = NoRun
    /\ faults = 0
    /\ storeHist = [first |-> {}, redone |-> {}]
    /\ list_fetches = NoFetches

Head1(q) == q[1]

StartPhase1(seed_account, mu) ==
    /\ pc = "idle"
    /\ run.n < MaxRuns
    /\ pc' = "p1"
    /\ to_process' = <<seed_account>>
    /\ processed' = {}
    /\ max_users' = mu
    /\ run' = [NewRun(1, run.n + 1, users) EXCEPT !.seed = seed_account, !.lost = run.lost,
                                                  !.last = run.last]
    /\ UNCHANGED <<users, follows, remote, min_connections, crawled_count, faults,
                   storeHist, list_fetches>>

\* Lines 36-38: the limit is reached, break.
P1Limit ==
    /\ pc = "p1"
    /\ to_process # <<>>
    /\ limit_reached(max_users, Cardinality(processed))
    /\ pc' = "p1end"
    /\ run' = [run EXCEPT !.cut = TRUE]
    /\ UNCHANGED <<users, follows, remote, to_process, processed, max_users,
                   min_connections, crawled_count, faults, storeHist, list_fetches>>

\* A mutant of lines 40-44: the did is read and left in the queue.
P1Skip_nopop ==
    /\ pc = "p1"
    /\ to_process # <<>>
    /\ ~limit_reached(max_users, Cardinality(processed))
    /\ Head1(to_process) \in processed \/ is_crawled(users, Head1(to_process))
    /\ UNCHANGED vars

\* Lines 40-44: the dequeued did is processed or crawled already, continue.
P1Skip ==
    /\ pc = "p1"
    /\ to_process # <<>>
    /\ ~limit_reached(max_users, Cardinality(processed))
    /\ Head1(to_process) \in processed \/ is_crawled(users, Head1(to_process))
    /\ to_process' = Tail(to_process)
    /\ UNCHANGED <<users, follows, remote, pc, processed, max_users, min_connections,
                   crawled_count, run, faults, storeHist, list_fetches>>

\* A mutant of lines 49-52: the profile fetch fails, break.
P1ProfileFail_abort ==
    /\ pc = "p1"
    /\ to_process # <<>>
    /\ ~limit_reached(max_users, Cardinality(processed))
    /\ ~(Head1(to_process) \in processed \/ is_crawled(users, Head1(to_process)))
    /\ NoProfile \in get_profile(remote, Head1(to_process))
    /\ faults < MaxFaults
    /\ faults' = faults + 1
    /\ to_process' = Tail(to_process)
    /\ pc' = "p1end"
    /\ run' = [run EXCEPT !.profFail = @ \cup {Head1(to_process)}]
    /\ UNCHANGED <<users, follows, remote, processed, max_users, min_connections,
                   crawled_count, storeHist, list_fetches>>

\* Lines 49-52: the profile fetch fails, continue.
P1ProfileFail ==
    /\ pc = "p1"
    /\ to_process # <<>>
    /\ ~limit_reached(max_users, Cardinality(processed))
    /\ ~(Head1(to_process) \in processed \/ is_crawled(users, Head1(to_process)))
    /\ NoProfile \in get_profile(remote, Head1(to_process))
    /\ faults < MaxFaults
    /\ faults' = faults + 1
    /\ to_process' = Tail(to_process)
    /\ run' = [run EXCEPT !.profFail = @ \cup {Head1(to_process)}]
    /\ UNCHANGED <<users, follows, remote, pc, processed, max_users, min_connections,
                   crawled_count, storeHist, list_fetches>>

\* Lines 49-126: one account crawled, with what the remote requests returned
\* and the order in which the set of mutuals is iterated.
P1CrawlWith(profile, fl, rl, order) ==
    LET current_did == Head1(to_process)
        result == find_mutuals(fl.list, rl.list)
    IN  \E st \in {p1_store(users, follows, profile, result)} :
        /\ faults + Failed(fl) + Failed(rl) <= MaxFaults
        /\ faults' = faults + Failed(fl) + Failed(rl)
        /\ to_process' = p1_enqueue(Tail(to_process), order, processed, st.u)
        /\ users' = p1_mark(st.u, current_did)
        /\ follows' = st.f
        /\ processed' = processed \cup {current_did}
        /\ run' = [run EXCEPT
                     !.crawled = @ \cup {current_did},
                     !.listFail = @ \cup (IF fl.ok /\ rl.ok THEN {} ELSE {current_did}),
                     !.lost = @ \/ ~(fl.ok /\ rl.ok),
                     !.mutuals = @ \cup (Range(fl.list) \cap Range(rl.list)),
                     !.enq = @ \cup Range(SubSeq(to_process', Len(to_process),
                                                 Len(to_process')))]
        /\ list_fetches' = CountFetch(list_fetches, current_did)
        /\ UNCHANGED <<remote, pc, max_users, min_connections, crawled_count, storeHist>>

P1Crawl ==
    /\ pc = "p1"
    /\ to_process # <<>>
    /\ ~limit_reached(max_users, Cardinality(processed))
    /\ ~(Head1(to_process) \in processed \/ is_crawled(users, Head1(to_process)))
    /\ \E profile \in {x \in get_profile(remote, Head1(to_process)) : x.ok},
          fl \in get_all_follows(remote, Head1(to_process)),
          rl \in get_all_followers(remote, Head1(to_process)) :
         \E order \in Perms(find_mutuals(fl.list, rl.list).mutuals) :
            P1CrawlWith(profile, fl, rl, order)

\* Line 34: the queue is empty, the phase returns.
P1Done ==
    /\ pc = "p1"
    /\ to_process = <<>>
    /\ pc' = "p1end"
    /\ UNCHANGED <<users, follows, remote, to_process, processed, max_users,
                   min_connections, crawled_count, run, faults, storeHist, list_fetches>>

\* Lines 137-181: phase2_expand_graph is called.
BeginPhase2(T, mu) ==
    /\ pc = "idle"
    /\ \E order \in Perms(get_uncrawled_users(users)) :
         /\ to_process' = p2_initial_queue(users, follows, order, T)
         /\ run' = [NewRun(2, run.n + 1, users) EXCEPT
                      !.lost = run.lost,
                      !.last = run.last,
                      !.enqAt = {<<d, get_mutual_core_connection_count(users, follows, d)>> :
                                    d \in Range(to_process')},
                      !.scan = {<<d, get_mutual_core_connection_count(users, follows, d)>> :
                                    d \in get_uncrawled_users(users)},
                      !.initial = Range(to_process')]
    /\ pc' = "p2"
    /\ processed' = {}
    /\ crawled_count' = 0
    /\ max_users' = mu
    /\ min_connections' = T
    /\ UNCHANGED <<users, follows, remote, faults, storeHist, list_fetches>>

StartPhase2(T, mu) ==
    /\ run.n < MaxRuns
    /\ BeginPhase2(T, mu)

\* Lines 185-187: the limit is reached, break.
P2Limit ==
    /\ pc = "p2"
    /\ to_process # <<>>
    /\ limit_reached(max_users, crawled_count)
    /\ pc' = "p2end"
    /\ run' = [run EXCEPT !.cut = TRUE]
    /\ UNCHANGED <<users, follows, remote, to_process, processed, max_users,
                   min_connections, crawled_count, faults, storeHist, list_fetches>>

\* Lines 189-193: the dequeued did is processed or crawled already, continue.
P2Skip ==
    /\ pc = "p2"
    /\ to_process # <<>>
    /\ ~limit_reached(max_users, crawled_count)
    /\ Head1(to_process) \in processed \/ is_crawled(users, Head1(to_process))
    /\ to_process' = Tail(to_process)
    /\ UNCHANGED <<users, follows, remote, pc, processed, max_users, min_connections,
                   crawled_count, run, faults, storeHist, list_fetches>>

\* A mutant of lines 196-200: the did is not added to processed.
P2ProfileFail_unprocessed ==
    /\ pc = "p2"
    /\ to_process # <<>>
    /\ ~limit_reached(max_users, crawled_count)
    /\ ~(Head1(to_process) \in processed \/ is_crawled(users, Head1(to_process)))
    /\ NoProfile \in get_profile(remote, Head1(to_process))
    /\ faults < MaxFaults
    /\ faults' = faults + 1
    /\ to_process' = Tail(to_process)
    /\ run' = [run EXCEPT !.profFail = @ \cup {Head1(to_process)}]
    /\ UNCHANGED <<users, follows, remote, pc, processed, max_users, min_connections,
                   crawled_count, storeHist, list_fetches>>

\* Lines 196-200: the profile fetch fails; the did is processed, continue.
P2ProfileFail ==
    /\ pc = "p2"
    /\ to_process # <<>>
    /\ ~limit_reached(max_users, crawled_count)
    /\ ~(Head1(to_process) \in processed \/ is_crawled(users, Head1(to_process)))
    /\ NoProfile \in get_profile(remote, Head1(to_process))
    /\ faults < MaxFaults
    /\ faults' = faults + 1
    /\ to_process' = Tail(to_process)
    /\ processed' = processed \cup {Head1(to_process)}
    /\ run' = [run EXCEPT !.profFail = @ \cup {Head1(to_process)}]
    /\ UNCHANGED <<users, follows, remote, pc, max_users, min_connections,
                   crawled_count, storeHist, list_fetches>>

\* Lines 196-294: one account crawled, with what the remote requests returned.
P2CrawlWith(profile, fl, rl) ==
    LET current_did == Head1(to_process)
    IN  \E st \in {p2_store(users, follows, profile, fl.list, rl.list)} :
        /\ faults + Failed(fl) + Failed(rl) <= MaxFaults
        /\ faults' = faults + Failed(fl) + Failed(rl)
        /\ to_process' = p2_scan(Tail(to_process), temp_connections(fl.list, rl.list),
                                 1, processed, st.u, st.f, min_connections)
        /\ users' = mark_as_crawled(st.u, current_did)
        /\ follows' = st.f
        /\ processed' = processed \cup {current_did}
        /\ crawled_count' = crawled_count + 1
        /\ LET new == Range(SubSeq(to_process', Len(to_process), Len(to_process')))
           IN run' = [run EXCEPT
                       !.crawled = @ \cup {current_did},
                       !.listFail = @ \cup (IF fl.ok /\ rl.ok THEN {} ELSE {current_did}),
                     !.lost = @ \/ ~(fl.ok /\ rl.ok),
                       !.enq = @ \cup new,
                       !.enqAt = @ \cup
                          {<<d, get_mutual_core_connection_count(st.u, st.f, d)>> : d \in new}]
        /\ list_fetches' = CountFetch(list_fetches, current_did)
        /\ UNCHANGED <<remote, pc, max_users, min_connections, storeHist>>

P2Crawl ==
    /\ pc = "p2"
    /\ to_process # <<>>
    /\ ~limit_reached(max_users, crawled_count)
    /\ ~(Head1(to_process) \in processed \/ is_crawled(users, Head1(to_process)))
    /\ \E profile \in {x \in get_profile(remote, Head1(to_process)) : x.ok},
          fl \in get_all_follows(remote, Head1(to_process)),
          rl \in get_all_followers(remote, Head1(to_process)) :
         P2CrawlWith(profile, fl, rl)

\* Line 183: the queue is empty, the phase returns.
P2Done ==
    /\ pc = "p2"
    /\ to_process = <<>>
    /\ pc' = "p2end"
    /\ UNCHANGED <<users, follows, remote, to_process, processed, max_users,
                   min_connections, crawled_count, run, faults, storeHist, list_fetches>>

\* Lines 135 and 301: the phase has returned; its locals are gone.
Return ==
    /\ pc \in {"p1end", "p2end"}
    /\ pc' = "idle"
    /\ to_process' = <<>>
    /\ processed' = {}
    /\ max_users' = NoLimit
    /\ min_connections' = 0
    /\ crawled_count' = 0
    /\ run' = [NewRun(0, run.n, EmptyUsers) EXCEPT !.lost = run.lost]
    /\ UNCHANGED <<users, follows, remote, faults, storeHist, list_fetches>>

\* phase2.py main: the operator answers y to the reset.
Reset ==
    /\ pc = "idle"
    /\ users' = reset_phase2_users(users)
    /\ list_fetches' = ForgetFetches(list_fetches, users)
    /\ UNCHANGED <<follows, remote, pc, to_process, processed, max_users,
                   min_connections, crawled_count, run, faults, storeHist>>

Next ==
    \/ \E seed_account \in Seeds, mu \in Budgets : StartPhase1(seed_account, mu)
    \/ P1Limit
    \/ P1Skip
    \/ P1ProfileFail
    \/ P1Crawl
    \/ P1Done
    \/ \E T \in Thresholds, mu \in Budgets : StartPhase2(T, mu)
    \/ P2Limit
    \/ P2Skip
    \/ P2ProfileFail
    \/ P2Crawl
    \/ P2Done
    \/ Return
    \/ Reset

Spec == Init /\ [][Next]_vars

(***************************************************************************)
(* main.py main: Phase 1 from the seed, then Phase 2, on a new store.      *)
(* The program is sequential code whose remote requests return (with a     *)
(* result or with an error): it always takes its next step.                *)
(***************************************************************************)
NextMain ==
    \/ run.n = 0 /\ \E seed_account \in Seeds, mu \in Budgets : StartPhase1(seed_account, mu)
    \/ P1Limit
    \/ P1Skip
    \/ P1ProfileFail
    \/ P1Crawl
    \/ P1Done
    \/ pc = "p1end" /\ Return
    \/ run.n = 1 /\ \E T \in Thresholds, mu \in Budgets : StartPhase2(T, mu)
    \/ P2Limit
    \/ P2Skip
    \/ P2ProfileFail
    \/ P2Crawl
    \/ P2Done

SpecMain == Init /\ [][NextMain]_vars /\ WF_vars(NextMain)

(***************************************************************************)
(* main.py main on a new store, and then sessions of phase2.py main on the *)
(* store it left: each resets the non-core accounts if the operator        *)
(* answers y and calls Phase 2 with max_users=None; the operator gives the *)
(* T of the Phase 2 run before.  A log of the invocation that returned is  *)
(* kept for the next one.                                                  *)
(***************************************************************************)
MaxSessions == 2

\* Lines 135 and 301, logged: what the invocation was, what it crawled, whether
\* it ended on an empty queue with no fetch failed, and the edges it left.
ReturnLogged ==
    /\ pc \in {"p1end", "p2end"}
    /\ pc' = "idle"
    /\ to_process' = <<>>
    /\ processed' = {}
    /\ max_users' = NoLimit
    /\ min_connections' = 0
    /\ crawled_count' = 0
    /\ run' = [NewRun(0, run.n, EmptyUsers) EXCEPT
                 !.lost = run.lost,
                 !.last = [phase |-> run.phase, T |-> min_connections,
                           crawled |-> run.crawled,
                           clean |-> ~run.cut /\ run.profFail = {} /\ run.listFail = {},
                           edges |-> follows]]
    /\ UNCHANGED <<users, follows, remote, faults, storeHist, list_fetches>>

\* phase2.py lines 35-85 after main.py has run.
InSession == run.n >= 2 /\ run.n < 2 + MaxSessions

NextRerun ==
    \/ run.n = 0 /\ \E seed_account \in Seeds, mu \in Budgets : StartPhase1(seed_account, mu)
    \/ P1Limit
    \/ P1Skip
    \/ P1ProfileFail
    \/ P1Crawl
    \/ P1Done
    \/ run.n = 1 /\ \E T \in Thresholds, mu \in Budgets : StartPhase2(T, mu)
    \/ P2Limit
    \/ P2Skip
    \/ P2ProfileFail
    \/ P2Crawl
    \/ P2Done
    \/ ReturnLogged
    \/ InSession /\ Reset
    \/ InSession /\ BeginPhase2(run.last.T, NoLimit)

SpecRerun == Init /\ [][NextRerun]_vars

(***************************************************************************)
(* One run of Phase 2 on the store file it finds: phase2.py opens the      *)
(* database that is on disk (storage.py line 5), whatever earlier runs and *)
(* maintenance have left in it.                                            *)
(***************************************************************************)
DiskAccounts == {"S", "A", "B", "D"}

\* C is linked to S and A; B is linked to S, A, D and C; C follows itself.
GraphThreshold ==
    {<<"C", "S">>, <<"C", "A">>, <<"B", "S">>, <<"B", "A">>, <<"B", "D">>,
     <<"B", "C">>, <<"C", "C">>}

\* The rows and edges on disk: the edges of G that the crawled accounts'
\* steps recorded, and a row for every account flagged or named by an edge.
StoreOnDisk(G, crawledSet, coreSet) ==
    LET E == {e \in G : e[1] \in crawledSet \/ e[2] \in crawledSet}
        known == crawledSet \cup coreSet \cup {e[1] : e \in E} \cup {e[2] : e \in E}
    IN  Store([d \in known |->
                  Row(HandleOf(d), None, 0, 0, None,
                      IF d \in crawledSet THEN 1 ELSE 0,
                      IF d \in coreSet THEN 1 ELSE 0)],
              {<<e[1], e[2], FALSE>> : e \in E})

InitPhase2 ==
    /\ remote = GraphThreshold
    /\ \E crawledSet \in SUBSET (DiskAccounts \ {"B"}) :
       \E coreSet \in SUBSET (crawledSet \cup {"B"}) :
         /\ users = StoreOnDisk(remote, crawledSet, coreSet).u
         /\ follows = StoreOnDisk(remote, crawledSet, coreSet).f
    /\ pc = "idle"
    /\ to_process = <<>>
    /\ processed = {}
    /\ max_users = NoLimit
    /\ min_connections = 0
    /\ crawled_count = 0
    /\ run = NoRun
    /\ faults = 0
    /\ storeHist = [first |-> {}, redone |-> {}]
    /\ list_fetches = NoFetches

NextPhase2 ==
    \/ \E T \in Thresholds, mu \in Budgets : StartPhase2(T, mu)
    \/ P2Limit
    \/ P2Skip
    \/ P2ProfileFail
    \/ P2Crawl
    \/ P2Done

SpecPhase2 == InitPhase2 /\ [][NextPhase2]_vars

(***************************************************************************)
(* The store used directly: any sequence of calls of its operations.       *)
(***************************************************************************)
StoreDids == {"S", "A"}
StoreUserDids == {"S"}
DisplayNames == {None, "", "Fox"}
Counts == {0, 500}
Descriptions == {None, "", "bio"}

InitStore ==
    /\ users = EmptyUsers
    /\ follows = {}
    /\ remote = {}
    /\ pc = "idle"
    /\ to_process = <<>>
    /\ processed = {}
    /\ max_users = NoLimit
    /\ min_connections = 0
    /\ crawled_count = 0
    /\ run = NoRun
    /\ faults = 0
    /\ storeHist = [first |-> {}, redone |-> {}]
    /\ list_fetches = NoFetches

crawlerVars == <<remote, pc, to_process, processed, max_users, min_connections,
                 crawled_count, run, faults, list_fetches>>

AddUser(did, display_name, followers_count, follows_count, description) ==
    /\ users' = add_user(users, did, HandleOf(did), display_name, followers_count,
                         follows_count, description)
    /\ UNCHANGED <<follows, storeHist, crawlerVars>>

AddFollow(u, v, is_mutual) ==
    /\ follows' = add_follow(follows, u, v, is_mutual)
    /\ storeHist' =
          IF \E f \in storeHist.first : f[1] = u /\ f[2] = v
          THEN IF <<u, v, is_mutual>> \in storeHist.first
               THEN storeHist
               ELSE [storeHist EXCEPT !.redone = @ \cup {<<u, v>>}]
          ELSE [storeHist EXCEPT !.first = @ \cup {<<u, v, is_mutual>>}]
    /\ UNCHANGED <<users, crawlerVars>>

MarkCrawled(did) ==
    /\ users' = mark_as_crawled(users, did)
    /\ UNCHANGED <<follows, storeHist, crawlerVars>>

MarkCore(did) ==
    /\ users' = mark_as_mutual_core(users, did)
    /\ UNCHANGED <<follows, storeHist, crawlerVars>>

ResetStore ==
    /\ users' = reset_phase2_users(users)
    /\ UNCHANGED <<follows, storeHist, crawlerVars>>

NextStore ==
    \/ \E did \in StoreUserDids, dn \in DisplayNames, fc \in Counts, foc \in Counts,
          desc \in Descriptions : AddUser(did, dn, fc, foc, desc)
    \/ \E u \in StoreDids, v \in StoreDids, m \in BOOLEAN : AddFollow(u, v, m)
    \/ \E did \in StoreDids : MarkCrawled(did)
    \/ \E did \in StoreDids : MarkCore(did)
    \/ ResetStore

SpecStore == InitStore /\ [][NextStore]_vars

(***************************************************************************)
(* C2: record_edge (add_follow) is first-write-wins.  For every directed   *)
(* pair (u,v) that has been recorded, the store holds exactly one (u,v)    *)
(* row and its is_mutual is the value of the first record of the pair,     *)
(* whatever later records of the pair carried.                             *)
(***************************************************************************)
C2_FirstWriteWins ==
    \A f \in storeHist.first :
        {e \in follows : e[1] = f[1] /\ e[2] = f[2]} = {f}

\* A pair first recorded false and then true, and one first true and then false.
C2_Witness ==
    /\ \E f \in storeHist.first : f[3] = FALSE /\ <<f[1], f[2]>> \in storeHist.redone
    /\ \E f \in storeHist.first : f[3] = TRUE /\ <<f[1], f[2]>> \in storeHist.redone

\* An empty text field: absent or the empty text.
EmptyText(x) == x = None \/ x = ""

(***************************************************************************)
(* C5: upsert_account (add_user) never downgrades a field.  For display    *)
(* name, follower count, following count and description: when the stored  *)
(* value is non-empty (non-zero) and add_user is called for the same did   *)
(* with an empty incoming value (None, 0 or the empty text), the stored    *)
(* value is unchanged.                                                     *)
(***************************************************************************)
C5_NeverDowngrade ==
    [][\A did \in StoreUserDids, dn \in DisplayNames, fc \in Counts, foc \in Counts,
         desc \in Descriptions :
         (did \in DOMAIN users /\ AddUser(did, dn, fc, foc, desc)) =>
            /\ (EmptyText(dn) /\ ~EmptyText(users[did].display_name))
                  => users'[did].display_name = users[did].display_name
            /\ (fc = 0 /\ users[did].followers_count # 0)
                  => users'[did].followers_count = users[did].followers_count
            /\ (foc = 0 /\ users[did].follows_count # 0)
                  => users'[did].follows_count = users[did].follows_count
            /\ (EmptyText(desc) /\ ~EmptyText(users[did].description))
                  => users'[did].description = users[did].description]_vars

(***************************************************************************)
(* Claims about the crawler, checked under Spec.                           *)
(***************************************************************************)
Crawled == {d \in DOMAIN users : users[d].crawled = 1}

Core == {d \in DOMAIN users : users[d].is_mutual_core = 1}

\* The accounts whose crawled flag the running invocation has set.
NewlyCrawled == Crawled \ run.pre

CoreCount(d) == get_mutual_core_connection_count(users, follows, d)

(***************************************************************************)
(* C1: after a Phase 1 invocation has returned, every account it crawled   *)
(* has crawled = 1 and is_mutual_core = 1 in the store; none has one of    *)
(* the two flags without the other.                                        *)
(***************************************************************************)
C1_CrawledAndCore ==
    pc = "p1end" =>
        \A a \in run.crawled :
            /\ a \in DOMAIN users
            /\ users[a].crawled = 1
            /\ users[a].is_mutual_core = 1

\* A Phase 1 invocation that crawled two accounts has returned.
C1_Witness == pc = "p1end" /\ Cardinality(run.crawled) >= 2

(***************************************************************************)
(* C3: Phase 1 never enqueues a non-mutual.  Every did appended to the     *)
(* Phase 1 queue after the seed is in the intersection of the follow list  *)
(* and the follower list fetched for an account crawled in that            *)
(* invocation.                                                             *)
(***************************************************************************)
C3_OnlyMutualsEnqueued ==
    run.phase = 1 => run.enq \subseteq run.mutuals

\* S of the scenario graph is crawled: A is enqueued, B and C are stored and are not.
C3_Witness ==
    /\ run.phase = 1
    /\ remote = GraphScenario
    /\ run.enq = {"A"}
    /\ {"B", "C"} \subseteq DOMAIN users

(***************************************************************************)
(* C4: Phase 2 never crawls an account whose core-connection count was     *)
(* below T when it was enqueued.  Every account Phase 2 marks crawled was  *)
(* put in the queue (first scan or re-scan of connections) with a          *)
(* core-connection count >= min_connections at that moment.                *)
(***************************************************************************)
C4_CrawledMetThreshold ==
    run.phase = 2 =>
        \A a \in run.crawled :
            /\ \E e \in run.enqAt : e[1] = a
            /\ \A e \in run.enqAt : e[1] = a => e[2] >= min_connections

\* Phase 2 with T = 2 has crawled an account, and the store holds an uncrawled
\* account with one core connection, which is not queued.
C4_Witness ==
    /\ run.phase = 2
    /\ min_connections = 2
    /\ run.crawled # {}
    /\ \E d \in DOMAIN users :
          /\ users[d].crawled = 0
          /\ CoreCount(d) = 1
          /\ d \notin Range(to_process)
          /\ d \notin processed

(***************************************************************************)
(* C6: budget.  In a phase invoked with max_users = N, N >= 1, at most N   *)
(* accounts have their crawled flag go from 0 to 1.                        *)
(***************************************************************************)
C6_Budget ==
    (run.phase \in {1, 2} /\ max_users >= 1) => Cardinality(NewlyCrawled) <= max_users

\* Phase 2 stopped on its limit of 1 with an uncrawled account still queued.
C6_Witness ==
    /\ pc = "p2end"
    /\ run.cut
    /\ max_users = 1
    /\ Cardinality(NewlyCrawled) = 1
    /\ \E i \in DOMAIN to_process : ~is_crawled(users, to_process[i])

Pairs(F) == {<<e[1], e[2]>> : e \in F}

\* What one Phase 1 step for S with follow set F and follower set R does.
C7_StepEffect(S, F, R) ==
    /\ DOMAIN users' = DOMAIN users \cup {S} \cup F \cup R
    /\ follows \subseteq follows'
    /\ Pairs(follows') = Pairs(follows) \cup {<<S, f>> : f \in F} \cup {<<r, S>> : r \in R \ F}
    /\ \A e \in follows' \ follows : e[3] = (e[1] = S /\ e[2] \in F \cap R)
    /\ Range(SubSeq(to_process', Len(to_process), Len(to_process'))) \subseteq F \cap R
    /\ users'[S].crawled = 1
    /\ users'[S].is_mutual_core = 1

\* The store and the queue after the step for S of the scenario graph, on the
\* empty store.
C7_Scenario ==
    (/\ remote = GraphScenario
     /\ run.phase = 1
     /\ run.n = 1
     /\ faults = 0
     /\ run.crawled = {"S"})
    => /\ DOMAIN users = {"S", "A", "B", "C"}
       /\ follows = {<<"S", "A", TRUE>>, <<"S", "B", FALSE>>, <<"C", "S", FALSE>>}
       /\ to_process = <<"A">>
       /\ users["S"].crawled = 1
       /\ users["S"].is_mutual_core = 1

(***************************************************************************)
(* C7: one successful Phase 1 step for account S with follow list F and    *)
(* follower list R upserts S and every member of F and R; records the      *)
(* edges S->f for f in F with is_mutual = (f in R) and r->S with           *)
(* is_mutual = false for r in R \ F, and no other edge (none r->S for r in *)
(* both lists); enqueues only members of both F and R; marks S crawled and *)
(* core.  On an empty store with F = {A,B}, R = {A,C}: the edges are       *)
(* (S->A, true), (S->B, false), (C->S, false) and only A is enqueued.      *)
(* ("Records": add_follow is called; a pair the store already holds keeps  *)
(* its row.)                                                               *)
(***************************************************************************)
C7_Phase1Step ==
    /\ []C7_Scenario
    /\ [][(/\ pc = "p1"
            /\ to_process # <<>>
            /\ ~limit_reached(max_users, Cardinality(processed))
            /\ ~(Head1(to_process) \in processed \/ is_crawled(users, Head1(to_process)))
            /\ processed' # processed) =>
            \A profile \in {x \in get_profile(remote, Head1(to_process)) : x.ok},
               fl \in get_all_follows(remote, Head1(to_process)),
               rl \in get_all_followers(remote, Head1(to_process)) :
                 \A order \in Perms(Range(fl.list) \cap Range(rl.list)) :
                    P1CrawlWith(profile, fl, rl, order)
                       => C7_StepEffect(Head1(to_process), Range(fl.list), Range(rl.list))]_vars

\* The step for S of the scenario graph, on the empty store, has been taken.
C7_Witness ==
    /\ remote = GraphScenario
    /\ pc = "p1"
    /\ run.crawled = {"S"}
    /\ follows = {<<"S", "A", TRUE>>, <<"S", "B", FALSE>>, <<"C", "S", FALSE>>}
    /\ to_process = <<"A">>

MutualsOf(G, actor) == FollowsOf(G, actor) \cap FollowersOf(G, actor)

NoDuplicates(q) == \A i, j \in DOMAIN q : q[i] = q[j] => i = j

(***************************************************************************)
(* C10: the frontier is duplicate-free within a run.  In Phase 1 and in    *)
(* Phase 2, at every point of an invocation no did occurs more than once   *)
(* in to_process, and no did already processed in the invocation is        *)
(* appended to it.                                                         *)
(***************************************************************************)
C10_DuplicateFree ==
    /\ [](pc \in {"p1", "p2"} => NoDuplicates(to_process))
    /\ [][(P1Crawl \/ P2Crawl) =>
            (\A i \in DOMAIN to_process' :
                (i >= Len(to_process)) => (to_process'[i] \notin processed))]_vars

Uncrawled(U, d) == d \notin DOMAIN U \/ U[d].crawled = 0

C11_NoRecrawl ==
    /\ [](\A d \in DOMAIN list_fetches : list_fetches[d] <= 1)
    /\ [][(/\ pc \in {"p1", "p2"}
            /\ to_process # <<>>
            /\ Head1(to_process) \in Crawled
            /\ to_process' # to_process) =>
            (/\ to_process' = Tail(to_process)
             /\ UNCHANGED <<users, follows, list_fetches, faults>>
             /\ run'.crawled = run.crawled
             /\ run'.profFail = run.profFail
             /\ run'.listFail = run.listFail)]_vars

\* A second Phase 1 run on a seed whose lists were fetched by an earlier run
\* has dequeued the seed and skipped it.
C11_Witness ==
    /\ pc = "p1"
    /\ run.n = 2
    /\ to_process = <<>>
    /\ run.crawled = {}
    /\ run.profFail = {}
    /\ run.seed \in Crawled
    /\ list_fetches[run.seed] = 1

(***************************************************************************)
(* C12: no retry within a run.  In either phase, once the profile fetch of *)
(* a did has failed in an invocation, no step of that invocation fetches   *)
(* the profile of that did again (neither a step that crawls it nor a step *)
(* whose fetch fails again).                                               *)
(***************************************************************************)
C12_NoRetry ==
    [][(P1Crawl \/ P1ProfileFail \/ P2Crawl \/ P2ProfileFail) =>
         (Head1(to_process) \notin run.profFail)]_vars

(***************************************************************************)
(* C13: in Phase 1, an account whose follow list or follower list fetch    *)
(* failed (an error on some page) is abandoned for the run: it is not      *)
(* marked crawled and not flagged core.                                    *)
(***************************************************************************)
C13_ListFailureAbandons ==
    run.phase = 1 =>
        \A a \in run.listFail \ run.pre :
            ~is_crawled(users, a) /\ a \notin Core

(***************************************************************************)
(* C14: in Phase 2, an account whose profile fetch failed is in the        *)
(* processed set and is not in the queue for the rest of the invocation,   *)
(* no later step of the invocation fetches its profile, and the step of    *)
(* the failure leaves the store (its crawled flag included) unchanged.     *)
(***************************************************************************)
C14_Phase2ProfileFailure ==
    /\ [](run.phase = 2 =>
            (run.profFail \subseteq processed /\ run.profFail \cap Range(to_process) = {}))
    /\ [][(run.phase = 2 /\ run'.profFail # run.profFail) =>
            UNCHANGED <<users, follows>>]_vars
    /\ [][(P2Crawl \/ P2ProfileFail) => (Head1(to_process) \notin run.profFail)]_vars

\* The profile fetch of d failed in a Phase 2 run that also crawled an account
\* linked to d; d has enough core connections and is uncrawled, and is not queued.
C14_Witness ==
    /\ pc = "p2"
    /\ \E d \in run.profFail : \E c \in run.crawled :
         /\ d \in DOMAIN users
         /\ users[d].crawled = 0
         /\ qualifies(CoreCount(d), min_connections)
         /\ <<c, d>> \in Pairs(follows) \/ <<d, c>> \in Pairs(follows)
         /\ d \notin Range(to_process)

(***************************************************************************)
(* C15: the crawled flag is monotone.  No step of Phase 1 or Phase 2, and  *)
(* so no add_user, add_follow, mark_as_crawled or mark_as_mutual_core they *)
(* call, changes the crawled flag of an account from 1 to 0 or removes its *)
(* row; only the reset clears the flag.                                    *)
(***************************************************************************)
C15_CrawledMonotone ==
    [][Reset \/ (\A d \in Crawled : d \in DOMAIN users' /\ users'[d].crawled = 1)]_vars

\* A Phase 1 run has crawled S and then A, whose lists name S: the step of A
\* called add_user for the crawled S.
C15_Witness ==
    /\ pc = "p1"
    /\ remote = GraphClique
    /\ run.seed = "S"
    /\ {"S", "A"} \subseteq run.crawled
    /\ users["S"].crawled = 1

(***************************************************************************)
(* C16: the core flag of an account only ever changes from 0 to 1, and     *)
(* only in the Phase 1 step that crawls that account.  Steps of Phase 2,   *)
(* the add_user and add_follow calls of any step, and the reset never set  *)
(* or clear the core flag of any account.                                  *)
(***************************************************************************)
IsCore(U, d) == d \in DOMAIN U /\ U[d].is_mutual_core = 1

C16_CoreOnlySetByPhase1 ==
    [][\A d \in DOMAIN users \cup DOMAIN users' :
          (IsCore(users, d) # IsCore(users', d)) =>
              (/\ IsCore(users', d)
               /\ pc = "p1"
               /\ to_process # <<>>
               /\ d = Head1(to_process)
               /\ d \in run'.crawled \ run.crawled)]_vars

\* Phase 1 flagged accounts core; then a Phase 2 step crawled an account linked
\* to a core account, and that account is not core.
C16_Witness ==
    /\ run.phase = 2
    /\ run.crawled # {}
    /\ Core # {}
    /\ \E c \in run.crawled : c \notin Core /\ \E d \in Core :
          <<c, d>> \in Pairs(follows) \/ <<d, c>> \in Pairs(follows)

(***************************************************************************)
(* C17: both phases terminate.  On each remote graph, with a limit or with *)
(* none, and whatever fetches fail, a Phase 1 invocation and a Phase 2     *)
(* invocation each leave their loop (queue empty, or limit reached) after  *)
(* finitely many steps.                                                    *)
(***************************************************************************)
C17_Termination ==
    /\ (pc = "p1") ~> (pc = "p1end")
    /\ (pc = "p2") ~> (pc = "p2end")

\* A Phase 1 run with no limit crawled two accounts, had a profile fetch fail,
\* and ended on an empty queue.
C17_Witness ==
    /\ pc = "p1end"
    /\ max_users = NoLimit
    /\ ~run.cut
    /\ to_process = <<>>
    /\ Cardinality(run.crawled) >= 2
    /\ run.profFail # {}

(***************************************************************************)
(* C18: get_mutual_core_connection_count(id) is the number of distinct     *)
(* accounts c flagged core such that the store holds an edge c->id or an   *)
(* edge id->c: a core account linked to id in both directions counts once, *)
(* and an account that is not core does not count.                         *)
(***************************************************************************)
C18_CoreCount ==
    \A id \in Accounts :
        get_mutual_core_connection_count(users, follows, id)
          = Cardinality({c \in Core :
                           <<c, id>> \in Pairs(follows) \/ <<id, c>> \in Pairs(follows)})

\* An account with two core accounts linked to it in both directions and a
\* neighbour that is not core: its count is 2.
C18_Witness ==
    \E id \in Accounts :
        /\ Cardinality({c \in Core \ {id} :
                          <<c, id>> \in Pairs(follows) /\ <<id, c>> \in Pairs(follows)}) = 2
        /\ \E n \in DOMAIN users \ Core :
              <<n, id>> \in Pairs(follows) \/ <<id, n>> \in Pairs(follows)
        /\ get_mutual_core_connection_count(users, follows, id) = 2

(***************************************************************************)
(* C19: in Phase 1, the step in which the profile fetch of the dequeued    *)
(* did fails leaves the store unchanged (no row added or changed, no edge, *)
(* no flag) and does not end the loop: the did is dropped and the loop     *)
(* goes on with the rest of the queue.                                     *)
(***************************************************************************)
C19_Phase1ProfileFailure ==
    [][(pc = "p1" /\ faults' > faults /\ run'.crawled = run.crawled) =>
         (/\ UNCHANGED <<users, follows>>
          /\ pc' = "p1"
          /\ to_process # <<>>
          /\ to_process' = Tail(to_process))]_vars

\* S of the clique was crawled and A and B queued; the profile fetch of A has
\* failed: the store is as the step of S left it and B is next.
C19_Witness ==
    /\ pc = "p1"
    /\ remote = GraphClique
    /\ run.seed = "S"
    /\ run.crawled = {"S"}
    /\ run.profFail = {"A"}
    /\ to_process = <<"B">>
    /\ Crawled = {"S"}
    /\ \A e \in follows : e[1] = "S" \/ e[2] = "S"

\* The pairs of accounts that follow each other.
MutualPairs(G) == {e \in G : <<e[2], e[1]>> \in G}

\* The accounts within k mutual hops of s.
RECURSIVE Ball(_, _, _)
Ball(G, s, k) ==
    IF k = 0 THEN {s}
    ELSE LET b == Ball(G, s, k - 1)
         IN  b \cup {e[2] : e \in {x \in MutualPairs(G) : x[1] \in b}}

\* The mutual-hop distance from s to d (the number of accounts when there is no path).
Dist(G, s, d) ==
    LET far == Cardinality(Accounts)
    IN  IF \E k \in 0..far : d \in Ball(G, s, k)
        THEN CHOOSE k \in 0..far : d \in Ball(G, s, k) /\ \A j \in 0..(k - 1) : d \notin Ball(G, s, j)
        ELSE far

(***************************************************************************)
(* C20: Phase 1 is breadth-first.  Every step of its loop leaves the queue *)
(* alone or takes its head away and appends at its end (FIFO); and in the  *)
(* first invocation (empty store) with no fetch failure, the account being *)
(* crawled is at least as many mutual hops from the seed as every account  *)
(* the invocation has crawled before it.                                   *)
(***************************************************************************)
C20_BreadthFirst ==
    /\ [][pc = "p1" =>
            \/ to_process' = to_process
            \/ /\ to_process # <<>>
               /\ Len(to_process') >= Len(to_process) - 1
               /\ SubSeq(to_process', 1, Len(to_process) - 1) = Tail(to_process)]_vars
    /\ [][(/\ pc = "p1" /\ run.phase = 1 /\ run.n = 1 /\ faults' = 0
           /\ run'.crawled # run.crawled) =>
            \A c \in run.crawled :
                Dist(remote, run.seed, c) <= Dist(remote, run.seed, Head1(to_process))]_vars

\* The chain crawled from A without a failure: A, its two neighbours, then C
\* at two hops.
C20_Witness ==
    /\ remote = GraphChain
    /\ run.phase = 1 /\ run.n = 1 /\ faults = 0
    /\ run.seed = "A"
    /\ run.crawled = {"S", "A", "B", "C"}
    /\ Dist(remote, "A", "C") = Dist(remote, "A", "S") + 1


(***************************************************************************)
(* C21: the queue Phase 2 starts with holds exactly the accounts that, in  *)
(* the store as the invocation finds it, have crawled = 0 and a            *)
(* core-connection count of at least T: all of them, nothing else, each    *)
(* once.                                                                   *)
(***************************************************************************)
C21_InitialFrontier ==
    [][(pc = "idle" /\ pc' = "p2") =>
         (/\ Range(to_process') =
                {d \in DOMAIN users :
                    /\ users[d].crawled = 0
                    /\ get_mutual_core_connection_count(users, follows, d)
                          >= min_connections'}
          /\ NoDuplicates(to_process'))]_vars

\* Phase 2 has just started with T = 2: one uncrawled account of the store
\* has two core connections and is queued, another has fewer and is not.
C21_Witness ==
    /\ pc = "p2"
    /\ run.phase = 2
    /\ run.crawled = {} /\ run.profFail = {} /\ processed = {}
    /\ min_connections = 2
    /\ \E d \in Range(to_process) : CoreCount(d) = 2 /\ users[d].crawled = 0
    /\ \E d \in DOMAIN users :
         users[d].crawled = 0 /\ CoreCount(d) < 2 /\ d \notin Range(to_process)


(***************************************************************************)
(* C22: Phase 2 does no mutual detection.  Every edge a Phase 2 step adds  *)
(* to the store has is_mutual = FALSE, whether or not the reverse edge     *)
(* exists in the remote graph or in the store; and a Phase 2 step leaves   *)
(* every edge that was stored before it as it was.                         *)
(***************************************************************************)
C22_Phase2NoMutuals ==
    [][pc = "p2" =>
         (/\ follows \subseteq follows'
          /\ \A e \in follows' \ follows : e[3] = FALSE)]_vars

\* Phase 2 has crawled an account and stored, as not mutual, an edge between
\* two accounts that follow each other, both directions being in the store;
\* neither was crawled before the invocation, so the edges are its own.
C22_Witness ==
    /\ run.phase = 2
    /\ \E e \in follows :
         /\ e[3] = FALSE
         /\ e[1] # e[2]
         /\ <<e[2], e[1]>> \in remote
         /\ <<e[2], e[1], FALSE>> \in follows
         /\ e[1] \in run.crawled
         /\ e[1] \notin run.pre /\ e[2] \notin run.pre


CoreIsCrawled(U) == \A d \in DOMAIN U : U[d].is_mutual_core = 1 => U[d].crawled = 1

(***************************************************************************)
(* C23: in every state of the store, whatever runs of Phase 1, of Phase 2  *)
(* and of the reset came before, an account with is_mutual_core = 1 has    *)
(* crawled = 1.  The store after each single write the code can make next  *)
(* (an upsert, mark_as_crawled, mark_as_mutual_core after mark_as_crawled, *)
(* the reset) has the property too.                                        *)
(***************************************************************************)
C23_CoreIsCrawled ==
    /\ CoreIsCrawled(users)
    /\ CoreIsCrawled(reset_phase2_users(users))
    /\ \A d \in Accounts :
         /\ CoreIsCrawled(upsert_stub(users, d))
         /\ d \in DOMAIN users =>
              /\ CoreIsCrawled(mark_as_crawled(users, d))
              /\ CoreIsCrawled(mark_as_mutual_core(mark_as_crawled(users, d), d))

\* After a reset: a core account is still crawled, and an account that
\* Phase 2 had crawled (its profile counts are stored) is uncrawled again.
C23_Witness ==
    /\ pc = "idle"
    /\ \E c \in Core : users[c].crawled = 1
    /\ \E d \in DOMAIN users :
         /\ users[d].crawled = 0
         /\ users[d].is_mutual_core = 0
         /\ users[d].followers_count > 0


(***************************************************************************)
(* C24: referential integrity.  After every step of Phase 1 or of Phase 2  *)
(* both endpoints of every stored follow edge have a row in the accounts   *)
(* table.                                                                  *)
(***************************************************************************)
C24_ReferentialIntegrity ==
    \A e \in follows : e[1] \in DOMAIN users /\ e[2] \in DOMAIN users

\* Phase 1 and then Phase 2 have each crawled an account and stored an edge
\* from it to an account that is known by its stub row only.
C24_Witness ==
    /\ run.phase = 2
    /\ \E e \in follows :
         /\ e[1] \in run.crawled
         /\ users[e[2]].crawled = 0
         /\ users[e[2]].follows_count = 0 /\ users[e[2]].followers_count = 0
    /\ \E e \in follows :
         /\ e[1] \in Core
         /\ users[e[2]].crawled = 0


NoSelfFollows(G) == \A e \in G : e[1] # e[2]

\* Phase 2 runs with T >= 1 on what Phase 1 wrote; the graph has no
\* self-follow and no list fetch has failed so far.
C25_Setting ==
    /\ run.phase = 2
    /\ min_connections >= 1
    /\ NoSelfFollows(remote)
    /\ ~run.lost

(***************************************************************************)
(* C25: when Phase 2 with T >= 1 runs on the store that Phase 1 wrote from *)
(* an empty store, the remote graph having no self-follow and no list      *)
(* fetch failing, no step of Phase 2 changes the core-connection count of  *)
(* any account; no step appends an account to the queue; and every account *)
(* Phase 2 crawls was in its initial queue.                                *)
(***************************************************************************)
C25_CountsFrozen ==
    /\ [][(pc = "p2" /\ C25_Setting /\ ~run'.lost) =>
            (/\ \A d \in Accounts :
                   get_mutual_core_connection_count(users', follows', d)
                     = get_mutual_core_connection_count(users, follows, d)
             /\ \/ to_process' = to_process
                \/ to_process # <<>> /\ to_process' = Tail(to_process))]_vars
    /\ [](C25_Setting => (run.enq = {} /\ run.crawled \subseteq run.initial))

\* Phase 2 has ended: it crawled an account of its initial queue and stored
\* an edge from it to an account that was not there before and stays
\* uncrawled.
C25_Witness ==
    /\ pc = "p2end"
    /\ C25_Setting
    /\ run.profFail = {}
    /\ \E e \in follows :
         /\ e[1] \in run.crawled
         /\ e[1] \in run.initial
         /\ e[2] \notin run.crawled \cup run.pre \cup run.initial
         /\ users[e[2]].crawled = 0


(***************************************************************************)
(* C26: while Phase 1 runs from an empty store and no list fetch has       *)
(* failed, a stored edge u -> v has is_mutual = TRUE exactly when v        *)
(* follows u in the remote graph, whichever of u and v was crawled first   *)
(* (and every stored edge is an edge of the remote graph).                 *)
(***************************************************************************)
C26_MutualFlagExact ==
    (run.phase = 1 /\ run.n = 1 /\ ~run.lost) =>
        \A e \in follows :
            /\ <<e[1], e[2]>> \in remote
            /\ e[3] = (<<e[2], e[1]>> \in remote)

\* Phase 1, without a failed list fetch, has crawled two accounts that follow
\* each other and stored both directions as mutual, and has stored a
\* one-way edge of a crawled account as not mutual.
C26_Witness ==
    /\ run.phase = 1 /\ run.n = 1 /\ ~run.lost
    /\ \E u, v \in run.crawled :
         /\ u # v
         /\ <<u, v, TRUE>> \in follows
         /\ <<v, u, TRUE>> \in follows
    /\ \E e \in follows : e[3] = FALSE /\ e[2] \in run.crawled
    /\ \E e \in follows : e[3] = FALSE /\ e[1] \in run.crawled


\* A run of Phase 2 with no budget that has ended with no fetch failed, after
\* a Phase 2 run with the same T that ended on an empty queue with no fetch
\* failed, and after the reset (no non-core account was crawled when it began).
C27_Rerun ==
    /\ pc = "p2end"
    /\ run.phase = 2
    /\ max_users = NoLimit
    /\ run.profFail = {} /\ run.listFail = {}
    /\ run.last.phase = 2
    /\ run.last.clean
    /\ run.last.T = min_connections
    /\ run.pre \subseteq Core

====
